---- MODULE Spec2Model ----
(***************************************************************************)
(* LeaderboardBroadcasterService (backend/src/services/                    *)
(* leaderboard-broadcaster.service.ts) and its caller CronService.         *)
(*                                                                         *)
(* The service is a single-threaded Node.js object.  Every `await` of the  *)
(* asynchronous cycle broadcastRankChanges is a suspension point: the code *)
(* between two awaits runs atomically and is one action here.  Time is in  *)
(* milliseconds, as Date.now() returns it.                                 *)
(***************************************************************************)
EXTENDS Integers, Sequences, FiniteSets, TLC

(***************************************************************************)
(* Bounds of the model.                                                    *)
(***************************************************************************)
MaxTicks == 5      \* the clock advances at most this many ticks
MaxCalls == 2      \* invocations of broadcastRankChanges recorded in a run
MaxCycles == 2     \* invocations that can be suspended at the same time
MaxTimers == 2     \* interval handles the runtime can hold at the same time
MaxRank == 3       \* ranks 1 .. MaxRank of the three-user snapshots of SpecDiff
MaxTable == 11     \* rows of the largest ranking the top-N queries run against

TickMs == 60 * 1000

(***************************************************************************)
(* Program constants.                                                      *)
(***************************************************************************)
BROADCAST_INTERVAL_MS == 5 * 60 * 1000
MIN_BROADCAST_GAP_MS == 4 * 60 * 1000
PublicRoom == "leaderboard:global"
TopLimit == 10     \* the limit passed to getGlobal and getWeekly

\* Date.now() at construction.  The real clock is far beyond the minimum gap,
\* so the first invocation is never held back by lastBroadcastTime = 0.
StartTime == MIN_BROADCAST_GAP_MS + TickMs
MaxTime == StartTime + MaxTicks * TickMs

Users == {"u1", "u2"}
\* <<globalRank, weeklyRank>> a row can carry
RankPairs == {<<8, 1>>, <<12, 3>>}

Cycles == 1 .. MaxCycles
Handles == 1 .. MaxTimers

VARIABLES
  io,                 \* TRUE iff this.io is bound (not null)
  broadcastTimer,     \* this.broadcastTimer: an interval handle, 0 = undefined
  lastBroadcastTime,  \* this.lastBroadcastTime
  previousSnapshots,  \* this.previousSnapshots: a Map, entries in insertion order
  isBroadcasting,     \* this.isBroadcasting
  clock,              \* Date.now()
  timers,             \* the runtime's live intervals: handle -> next fire time, 0 = none
  cyc,                \* the invocations of broadcastRankChanges: slot -> frame
  ncalls,             \* the number of invocations of broadcastRankChanges so far
  lastCall,           \* the most recent invocation: when (t), by whom (src), what
                      \* became of it (res)
  failed              \* is: the most recent cycle that returned failed and none was
                      \* started since; baseline: the stored snapshot it had found

progVars == <<io, broadcastTimer, lastBroadcastTime, previousSnapshots, isBroadcasting>>
vars == <<io, broadcastTimer, lastBroadcastTime, previousSnapshots, isBroadcasting,
          clock, timers, cyc, ncalls, lastCall, failed>>

(***************************************************************************)
(* Sequences and Maps.  A JavaScript Map keeps its keys in insertion       *)
(* order; it is the sequence of its entries, one per userId.               *)
(***************************************************************************)
Range(s) == {s[i] : i \in 1 .. Len(s)}

RECURSIVE Concat(_)
Concat(ss) == IF ss = <<>> THEN <<>> ELSE Head(ss) \o Concat(Tail(ss))

Abs(n) == IF n < 0 THEN -n ELSE n

Keys(m) == {m[i].userId : i \in 1 .. Len(m)}
MapHas(m, u) == u \in Keys(m)
MapGet(m, u) == m[CHOOSE i \in 1 .. Len(m) : m[i].userId = u]

\* Rows the RankingSource can return from findMany: one row per user at most,
\* in the order of the table (u1 before u2).
Row == {[userId |-> u, globalRank |-> r[1], weeklyRank |-> r[2]] : u \in Users, r \in RankPairs}
RowSeqs ==
  {<<>>} \cup {<<r>> : r \in Row}
         \cup {<<r, s>> : <<r, s>> \in {p \in Row \X Row : p[1].userId = "u1" /\ p[2].userId = "u2"}}

\* mutant: private events are emitted to the shared room
UserRoomShared(userId) == "leaderboard:global"

UserRoom(userId) == "user:" \o userId

(***************************************************************************)
(* getCurrentSnapshot: one Map.set per row; a repeated userId overwrites   *)
(* the value and keeps the position of the first insertion.                *)
(***************************************************************************)
MapSet(m, e) ==
  IF MapHas(m, e.userId)
    THEN [i \in 1 .. Len(m) |-> IF m[i].userId = e.userId THEN e ELSE m[i]]
    ELSE Append(m, e)

RECURSIVE BuildSnapshot(_, _)
BuildSnapshot(snapshot, leaderboards) ==
  IF leaderboards = <<>> THEN snapshot
  ELSE BuildSnapshot(
         MapSet(snapshot, [userId |-> Head(leaderboards).userId,
                           globalRank |-> Head(leaderboards).globalRank,
                           weeklyRank |-> Head(leaderboards).weeklyRank]),
         Tail(leaderboards))

getCurrentSnapshot(leaderboards) == BuildSnapshot(<<>>, leaderboards)

(***************************************************************************)
(* detectRankChanges: the events of the users present in both snapshots    *)
(* whose global or weekly rank differs, in the iteration order of the      *)
(* current snapshot, then Array.prototype.sort (stable) by descending      *)
(* |rankChange|.                                                           *)
(***************************************************************************)
\* mutant: the delta is taken the other way round
RankChangeEventCurrentMinusPrevious(previous, current) ==
  [type |-> "rank_changed",
   userId |-> current.userId,
   previousGlobalRank |-> previous.globalRank,
   currentGlobalRank |-> current.globalRank,
   previousWeeklyRank |-> previous.weeklyRank,
   currentWeeklyRank |-> current.weeklyRank,
   rankChange |-> current.globalRank - previous.globalRank]

RankChangeEvent(previous, current) ==
  [type |-> "rank_changed",
   userId |-> current.userId,
   previousGlobalRank |-> previous.globalRank,
   currentGlobalRank |-> current.globalRank,
   previousWeeklyRank |-> previous.weeklyRank,
   currentWeeklyRank |-> current.weeklyRank,
   rankChange |-> previous.globalRank - current.globalRank]

\* mutant: a user without a previous entry is compared with a last place
RECURSIVE CollectChangesFromLastPlace(_, _)
CollectChangesFromLastPlace(previousMap, currentMap) ==
  IF currentMap = <<>> THEN <<>>
  ELSE LET current == Head(currentMap)
           rest == CollectChangesFromLastPlace(previousMap, Tail(currentMap))
           previous == IF MapHas(previousMap, current.userId)
                         THEN MapGet(previousMap, current.userId)
                         ELSE [userId |-> current.userId, globalRank |-> 1000000,
                               weeklyRank |-> 1000000]
       IN IF current.globalRank # previous.globalRank
             \/ current.weeklyRank # previous.weeklyRank
            THEN <<RankChangeEvent(previous, current)>> \o rest
            ELSE rest

RECURSIVE CollectChanges(_, _)
CollectChanges(previousMap, currentMap) ==
  IF currentMap = <<>> THEN <<>>
  ELSE LET current == Head(currentMap)
           rest == CollectChanges(previousMap, Tail(currentMap))
       IN IF ~MapHas(previousMap, current.userId) THEN rest
          ELSE LET previous == MapGet(previousMap, current.userId)
               IN IF current.globalRank # previous.globalRank
                     \/ current.weeklyRank # previous.weeklyRank
                    THEN <<RankChangeEvent(previous, current)>> \o rest
                    ELSE rest

\* mutant: the comparator without Math.abs
CompareChangesSigned(a, b) == b.rankChange - a.rankChange

\* the comparator of line 237: negative iff a goes before b
CompareChanges(a, b) == Abs(b.rankChange) - Abs(a.rankChange)

RECURSIVE InsertSorted(_, _)
InsertSorted(sorted, e) ==
  IF sorted = <<>> THEN <<e>>
  ELSE IF CompareChanges(e, Head(sorted)) < 0 THEN <<e>> \o sorted
       ELSE <<Head(sorted)>> \o InsertSorted(Tail(sorted), e)

RECURSIVE StableSort(_, _)
StableSort(sorted, changes) ==
  IF changes = <<>> THEN sorted
  ELSE StableSort(InsertSorted(sorted, Head(changes)), Tail(changes))

detectRankChanges(previousMap, currentSnapshot) ==
  StableSort(<<>>, CollectChanges(previousMap, currentSnapshot))

(***************************************************************************)
(* detectAchievements: the four rules, each pushed at most once, in the    *)
(* order of the source.                                                    *)
(***************************************************************************)
\* mutant: the rules are chained with else, the first that holds wins
detectAchievementsFirstOnly(change) ==
  IF change.currentGlobalRank <= 10 /\ change.previousGlobalRank > 10
    THEN <<"top_10_global">>
  ELSE IF change.currentGlobalRank <= 100 /\ change.previousGlobalRank > 100
    THEN <<"top_100_global">>
  ELSE IF change.rankChange >= 50 THEN <<"big_climb">>
  ELSE IF change.currentWeeklyRank = 1 /\ change.previousWeeklyRank # 1
    THEN <<"weekly_leader">>
  ELSE <<>>

\* mutant: the band rules look at the current rank only
detectAchievementsByLevel(change) ==
  (IF change.currentGlobalRank <= 10 THEN <<"top_10_global">> ELSE <<>>)
  \o (IF change.currentGlobalRank <= 100 THEN <<"top_100_global">> ELSE <<>>)
  \o (IF change.rankChange >= 50 THEN <<"big_climb">> ELSE <<>>)
  \o (IF change.currentWeeklyRank = 1 THEN <<"weekly_leader">> ELSE <<>>)

detectAchievements(change) ==
  (IF change.currentGlobalRank <= 10 /\ change.previousGlobalRank > 10
     THEN <<"top_10_global">> ELSE <<>>)
  \o (IF change.currentGlobalRank <= 100 /\ change.previousGlobalRank > 100
        THEN <<"top_100_global">> ELSE <<>>)
  \o (IF change.rankChange >= 50 THEN <<"big_climb">> ELSE <<>>)
  \o (IF change.currentWeeklyRank = 1 /\ change.previousWeeklyRank # 1
        THEN <<"weekly_leader">> ELSE <<>>)

(***************************************************************************)
(* What a cycle does to the outside world is recorded in its frame's log:  *)
(* one entry per RankingSource call that returned, per diff and per        *)
(* emit(); ok is FALSE when the call or the emit threw.                    *)
(***************************************************************************)
Ev(ev, to, ok, data) == [ev |-> ev, to |-> to, ok |-> ok, data |-> data]

RankChangedPayload(change) ==
  [type |-> "rank_changed",
   previousGlobalRank |-> change.previousGlobalRank,
   currentGlobalRank |-> change.currentGlobalRank,
   previousWeeklyRank |-> change.previousWeeklyRank,
   currentWeeklyRank |-> change.currentWeeklyRank,
   rankChange |-> change.rankChange,
   improved |-> (change.rankChange > 0)]

\* mutant: one try/catch around the whole loop, the first throw ends it
RECURSIVE PrivateUntilFirstFailure(_, _, _)
PrivateUntilFirstFailure(ioBound, changes, failing) ==
  IF ~ioBound \/ changes = <<>> THEN <<>>
  ELSE LET ok == Head(changes).userId \notin failing
           send == [ev |-> "rank_changed", to |-> "user:" \o Head(changes).userId,
                    ok |-> ok, data |-> RankChangedPayload(Head(changes))]
       IN IF ok THEN <<send>> \o PrivateUntilFirstFailure(ioBound, Tail(changes), failing)
          ELSE <<send>>

\* broadcastPrivateRankChanges: one emit per change, each in its own try/catch;
\* failing is the set of users whose emit throws.
broadcastPrivateRankChanges(ioBound, changes, failing) ==
  IF ~ioBound THEN <<>>
  ELSE [i \in 1 .. Len(changes) |->
          Ev("rank_changed", UserRoom(changes[i].userId),
             changes[i].userId \notin failing, RankChangedPayload(changes[i]))]

\* The emits of one change in broadcastAchievements: the try/catch encloses the
\* whole inner loop, so the first emit that throws ends the loop of that change.
RECURSIVE AchievementSends(_, _, _)
AchievementSends(userId, achievements, failing) ==
  IF achievements = <<>> THEN <<>>
  ELSE LET ok == <<userId, Head(achievements)>> \notin failing
           send == Ev("achievement_earned", UserRoom(userId), ok,
                      [type |-> "achievement_earned",
                       achievementType |-> Head(achievements)])
       IN IF ok THEN <<send>> \o AchievementSends(userId, Tail(achievements), failing)
          ELSE <<send>>

\* broadcastAchievements: failing is the set of <<userId, kind>> whose emit throws.
broadcastAchievements(ioBound, changes, failing) ==
  IF ~ioBound THEN <<>>
  ELSE Concat([i \in 1 .. Len(changes) |->
                 AchievementSends(changes[i].userId,
                                  detectAchievements(changes[i]), failing)])

(***************************************************************************)
(* The public update.  LeaderboardRepository is not part of the service:   *)
(* getGlobal(limit, offset) and getWeekly(limit, offset) are the ordered   *)
(* top-N queries of the RankingSource contract, at most `limit` rows of    *)
(* the ranking starting after `offset`.  The ranking of n users is the     *)
(* table whose i-th row is the user ranked i; the rankings queried have    *)
(* more rows than the service asks for.                                    *)
(***************************************************************************)
TableSizes == {MaxTable}

RankingTable(n) ==
  [i \in 1 .. n |-> [userId |-> i, user |-> [username |-> i],
                     globalRank |-> i, weeklyRank |-> i,
                     allTimePnl |-> 0, weeklyPnl |-> 0]]

Window(table, limit, offset) ==
  SubSeq(table, offset + 1, IF offset + limit < Len(table) THEN offset + limit
                                                          ELSE Len(table))

getGlobal(table, limit, offset) == Window(table, limit, offset)
getWeekly(table, limit, offset) == Window(table, limit, offset)

\* the event of lines 296-311; Number() of a pnl is the pnl
LeaderboardUpdateEvent(topGlobal, topWeekly) ==
  [type |-> "leaderboard_updated",
   topGlobal |-> [i \in 1 .. Len(topGlobal) |->
                    [userId |-> topGlobal[i].userId,
                     username |-> topGlobal[i].user.username,
                     rank |-> topGlobal[i].globalRank,
                     pnl |-> topGlobal[i].allTimePnl]],
   topWeekly |-> [i \in 1 .. Len(topWeekly) |->
                    [userId |-> topWeekly[i].userId,
                     username |-> topWeekly[i].user.username,
                     rank |-> topWeekly[i].weeklyRank,
                     pnl |-> topWeekly[i].weeklyPnl]]]

AchievementPairs(changes) ==
  {<<changes[i].userId, k>> :
     i \in 1 .. Len(changes), k \in {"top_10_global", "top_100_global",
                                     "big_climb", "weekly_leader"}}

(***************************************************************************)
(* Frames of broadcastRankChanges: the locals of one invocation (pc, now,  *)
(* currentSnapshot, rankChanges), the log of what it did so far, and what  *)
(* it found when it was called: the number of the call, whether the        *)
(* transport was bound, the stored snapshot, whether it follows a failed   *)
(* cycle.  The outcome of an invocation that returned is kept in lastCall. *)
(***************************************************************************)
IdleFrame ==
  [pc |-> "idle", now |-> 0, currentSnapshot |-> <<>>, rankChanges |-> <<>>,
   topGlobal |-> <<>>,
   log |-> <<>>, call |-> 0, bound |-> FALSE, baseline |-> <<>>, retry |-> FALSE]

Running(c) == cyc[c].pc # "idle"

\* A frame whose awaited promise is already resolved resumes as a microtask:
\* the event loop runs it before any timer callback, and no time passes.
Resumable(c) == cyc[c].pc \in {"detect", "public", "achievements", "swap"}
MicrotaskQueued == \E c \in Cycles : Resumable(c)
InFlight == {c \in Cycles : Running(c)}

NoCall == [t |-> 0, src |-> "none", res |-> "none"]
NotFailed == [is |-> FALSE, baseline |-> <<>>]

Init ==
  /\ io = FALSE
  /\ broadcastTimer = 0
  /\ lastBroadcastTime = 0
  /\ previousSnapshots = <<>>
  /\ isBroadcasting = FALSE
  /\ clock = StartTime
  /\ timers = [h \in Handles |-> 0]
  /\ cyc = [c \in Cycles |-> IdleFrame]
  /\ ncalls = 0
  /\ lastCall = NoCall
  /\ failed = NotFailed

(***************************************************************************)
(* broadcastRankChanges up to its first await: the two gates, the flag,    *)
(* and the call of updateAllRanks.                                         *)
(***************************************************************************)
\* mutant: the minimum-gap check is missing
TooSoonNever(now, last) == FALSE

TooSoon(now, last) == now - last < MIN_BROADCAST_GAP_MS

\* mutant: the single-flight check is missing
AlreadyInProgressNever(flag) == FALSE

AlreadyInProgress(flag) == flag

FreeSlot == CHOOSE c \in Cycles : ~Running(c) /\ \A d \in Cycles : d < c => Running(d)

broadcastRankChanges(src) ==
  /\ ncalls < MaxCalls
  /\ \E c \in Cycles : ~Running(c)
  /\ ncalls' = ncalls + 1
  /\ LET now == clock
         call == [t |-> now, src |-> src]
     IN IF TooSoon(now, lastBroadcastTime)
          THEN /\ lastCall' = call @@ [res |-> "too_soon"]
               /\ UNCHANGED <<isBroadcasting, cyc, failed>>
          ELSE IF AlreadyInProgress(isBroadcasting)
            THEN /\ lastCall' = call @@ [res |-> "in_progress"]
                 /\ UNCHANGED <<isBroadcasting, cyc, failed>>
            ELSE /\ lastCall' = call @@ [res |-> "running"]
                 /\ isBroadcasting' = TRUE
                 /\ failed' = NotFailed
                 /\ cyc' = [cyc EXCEPT ![FreeSlot] =
                              [IdleFrame EXCEPT !.pc = "updateAllRanks", !.now = now,
                                                !.call = ncalls + 1, !.bound = io,
                                                !.baseline = previousSnapshots,
                                                !.retry = failed.is]]
  /\ UNCHANGED <<io, lastBroadcastTime, previousSnapshots, clock>>

(***************************************************************************)
(* Lifecycle.                                                              *)
(***************************************************************************)
initialize ==
  /\ io' = TRUE
  /\ UNCHANGED <<broadcastTimer, lastBroadcastTime, previousSnapshots, isBroadcasting,
                 clock, timers, cyc, ncalls, lastCall, failed>>

\* mutant: the timer is armed with the minimum gap instead of the interval
setIntervalGap(ts, h, now) == [ts EXCEPT ![h] = now + MIN_BROADCAST_GAP_MS]

setInterval(ts, h, now) == [ts EXCEPT ![h] = now + BROADCAST_INTERVAL_MS]

\* mutant: the handle is forgotten but the interval is not cleared
clearIntervalForgotten(ts, h) == ts

clearInterval(ts, h) == [ts EXCEPT ![h] = 0]

FreeHandle == CHOOSE h \in Handles : timers[h] = 0 /\ \A g \in Handles : g < h => timers[g] # 0

\* mutant: the check of broadcastTimer is missing
startUnguarded ==
  /\ \E h \in Handles : timers[h] = 0
  /\ broadcastRankChanges("start")
  /\ timers' = setInterval(timers, FreeHandle, clock)
  /\ broadcastTimer' = FreeHandle

start ==
  IF broadcastTimer # 0
    THEN UNCHANGED vars
    ELSE /\ \E h \in Handles : timers[h] = 0
         /\ broadcastRankChanges("start")
         /\ timers' = setInterval(timers, FreeHandle, clock)
         /\ broadcastTimer' = FreeHandle

\* mutant: the interval is cleared but the handle is kept
stopKeepsHandle ==
  /\ IF broadcastTimer # 0
       THEN timers' = clearInterval(timers, broadcastTimer)
       ELSE UNCHANGED timers
  /\ UNCHANGED <<io, broadcastTimer, lastBroadcastTime, previousSnapshots,
                 isBroadcasting, clock, cyc, ncalls, lastCall, failed>>

stop ==
  /\ IF broadcastTimer # 0
       THEN /\ timers' = clearInterval(timers, broadcastTimer)
            /\ broadcastTimer' = 0
       ELSE UNCHANGED <<timers, broadcastTimer>>
  /\ UNCHANGED <<io, lastBroadcastTime, previousSnapshots, isBroadcasting, clock,
                 cyc, ncalls, lastCall, failed>>

\* the callback of setInterval
TimerFire(h) ==
  /\ ~MicrotaskQueued
  /\ timers[h] # 0
  /\ clock >= timers[h]
  /\ broadcastRankChanges("timer")
  /\ timers' = [timers EXCEPT ![h] = timers[h] + BROADCAST_INTERVAL_MS]
  /\ UNCHANGED broadcastTimer

\* a caller other than the timer (broadcastRankChanges is public)
Invoke ==
  /\ broadcastRankChanges("direct")
  /\ UNCHANGED <<broadcastTimer, timers>>

\* time passes; a due interval fires before the clock moves on
Tick ==
  /\ ~MicrotaskQueued
  /\ clock + TickMs <= MaxTime
  /\ \A h \in Handles : timers[h] = 0 \/ clock < timers[h]
  /\ clock' = clock + TickMs
  /\ UNCHANGED <<io, broadcastTimer, lastBroadcastTime, previousSnapshots,
                 isBroadcasting, timers, cyc, ncalls, lastCall, failed>>

(***************************************************************************)
(* The cycle after its first await.  Each action is the code between two   *)
(* suspension points of broadcastRankChanges and of the async methods it   *)
(* awaits.                                                                 *)
(***************************************************************************)
Logged(c, entries) == cyc[c].log \o entries

\* what became of the invocation of frame c, if it is the most recent one
Outcome(c, res) == IF cyc[c].call = ncalls THEN [lastCall EXCEPT !.res = res] ELSE lastCall

\* mutant: the flag is cleared nowhere
FinallyKeeps(flag) == flag

\* the finally block of line 163
Finally(flag) == FALSE

\* mutant: the catch block drops the stored snapshot
CatchAndReset(c) ==
  /\ cyc' = [cyc EXCEPT ![c] = IdleFrame]
  /\ lastCall' = Outcome(c, "failed")
  /\ failed' = [is |-> TRUE, baseline |-> cyc[c].baseline]
  /\ isBroadcasting' = FALSE
  /\ previousSnapshots' = <<>>
  /\ UNCHANGED <<io, broadcastTimer, lastBroadcastTime, clock, timers, ncalls>>

\* mutant: lastBroadcastTime is stamped whatever the outcome of the cycle
CatchStampsTime(c) ==
  /\ cyc' = [cyc EXCEPT ![c] = IdleFrame]
  /\ lastCall' = Outcome(c, "failed")
  /\ failed' = [is |-> TRUE, baseline |-> cyc[c].baseline]
  /\ isBroadcasting' = FALSE
  /\ lastBroadcastTime' = cyc[c].now
  /\ UNCHANGED <<io, broadcastTimer, previousSnapshots, clock, timers, ncalls>>

\* catch (line 161) and finally: the exception is logged, the flag cleared,
\* nothing else is assigned and the promise resolves
CatchAndFinally(c) ==
  /\ cyc' = [cyc EXCEPT ![c] = IdleFrame]
  /\ lastCall' = Outcome(c, "failed")
  /\ failed' = [is |-> TRUE, baseline |-> cyc[c].baseline]
  /\ UNCHANGED ncalls
  /\ isBroadcasting' = Finally(isBroadcasting)
  /\ UNCHANGED <<io, broadcastTimer, lastBroadcastTime, previousSnapshots, clock, timers>>

Goto(c, pc, entries) ==
  /\ cyc' = [cyc EXCEPT ![c].pc = pc, ![c].log = Logged(c, entries)]
  /\ UNCHANGED <<io, broadcastTimer, lastBroadcastTime, previousSnapshots,
                 isBroadcasting, clock, timers, ncalls, lastCall, failed>>

\* Step 1: await updateAllRanks()
UpdateAllRanksReturns(c) ==
  /\ cyc[c].pc = "updateAllRanks"
  /\ \/ Goto(c, "findMany", <<Ev("updateAllRanks", "", TRUE, <<>>)>>)
     \/ CatchAndFinally(c)

\* Step 2: await getCurrentSnapshot(), which awaits findMany()
FindManyReturns(c) ==
  /\ cyc[c].pc = "findMany"
  /\ \/ \E leaderboards \in RowSeqs :
          /\ cyc' = [cyc EXCEPT ![c].pc = "detect",
                                ![c].currentSnapshot = getCurrentSnapshot(leaderboards),
                                ![c].log = Logged(c, <<Ev("findMany", "", TRUE, leaderboards)>>)]
          /\ UNCHANGED <<io, broadcastTimer, lastBroadcastTime, previousSnapshots,
                         isBroadcasting, clock, timers, ncalls, lastCall, failed>>
     \/ CatchAndFinally(c)

\* mutant: the achievements of a change are sent right after its rank_changed
DetectAndBroadcastInterleaved(c) ==
  /\ cyc[c].pc = "detect"
  /\ LET rankChanges == detectRankChanges(previousSnapshots, cyc[c].currentSnapshot)
     IN /\ cyc' = [cyc EXCEPT
               ![c].pc = "public",
               ![c].rankChanges = rankChanges,
               ![c].log = Logged(c,
                  <<Ev("detectRankChanges", "", TRUE, previousSnapshots)>>
                  \o Concat([i \in 1 .. Len(rankChanges) |->
                        broadcastPrivateRankChanges(io, <<rankChanges[i]>>, {})
                        \o broadcastAchievements(io, <<rankChanges[i]>>, {})]))]
        /\ UNCHANGED <<io, broadcastTimer, lastBroadcastTime, previousSnapshots,
                       isBroadcasting, clock, timers, ncalls, lastCall, failed>>

\* Steps 3 and 4: detectRankChanges, then broadcastPrivateRankChanges up to
\* the await of its promise
DetectAndBroadcastPrivate(c) ==
  /\ cyc[c].pc = "detect"
  /\ LET rankChanges == detectRankChanges(previousSnapshots, cyc[c].currentSnapshot)
     IN \E failing \in SUBSET {rankChanges[i].userId : i \in 1 .. Len(rankChanges)} :
          /\ cyc' = [cyc EXCEPT
               ![c].pc = "public",
               ![c].rankChanges = rankChanges,
               ![c].log = Logged(c,
                  <<Ev("detectRankChanges", "", TRUE, previousSnapshots)>>
                  \o broadcastPrivateRankChanges(io, rankChanges, failing))]
          /\ UNCHANGED <<io, broadcastTimer, lastBroadcastTime, previousSnapshots,
                         isBroadcasting, clock, timers, ncalls, lastCall, failed>>

\* mutant: an unbound transport is an error
PublicUpdateStartsThrows(c) ==
  /\ cyc[c].pc = "public"
  /\ IF ~io THEN CatchAndFinally(c)
            ELSE Goto(c, "getGlobal", <<>>)

\* Step 5: broadcastPublicLeaderboardUpdate up to its first await
PublicUpdateStarts(c) ==
  /\ cyc[c].pc = "public"
  /\ IF ~io THEN Goto(c, "achievements", <<>>)
            ELSE Goto(c, "getGlobal", <<>>)

\* what the frame does on a step of the public update
PublicStep(c, pc, topGlobal, entries) ==
  /\ cyc' = [cyc EXCEPT ![c].pc = pc, ![c].topGlobal = topGlobal,
                        ![c].log = Logged(c, entries)]
  /\ UNCHANGED <<io, broadcastTimer, lastBroadcastTime, previousSnapshots,
                 isBroadcasting, clock, timers, ncalls, lastCall, failed>>

\* mutant: no try/catch in the public update, a throw of getGlobal reaches
\* the catch of the cycle
GetGlobalReturnsUncaught(c) ==
  /\ cyc[c].pc = "getGlobal"
  /\ \/ \E n \in TableSizes :
          PublicStep(c, "getWeekly", getGlobal(RankingTable(n), TopLimit, 0),
                     <<Ev("getGlobal", "", TRUE, <<>>)>>)
     \/ CatchAndFinally(c)

\* mutant: the query is made with the limit of the leaderboard page, 100
GetGlobalReturnsPageLimit(c) ==
  /\ cyc[c].pc = "getGlobal"
  /\ \/ \E n \in TableSizes :
          PublicStep(c, "getWeekly", getGlobal(RankingTable(n), 100, 0),
                     <<Ev("getGlobal", "", TRUE, <<>>)>>)
     \/ Goto(c, "achievements", <<Ev("getGlobal", "", FALSE, <<>>)>>)

\* await getGlobal(10, 0); a throw is caught at line 320
GetGlobalReturns(c) ==
  /\ cyc[c].pc = "getGlobal"
  /\ \/ \E n \in TableSizes :
          PublicStep(c, "getWeekly", getGlobal(RankingTable(n), TopLimit, 0),
                     <<Ev("getGlobal", "", TRUE, <<>>)>>)
     \/ Goto(c, "achievements", <<Ev("getGlobal", "", FALSE, <<>>)>>)

\* mutant: the update is emitted to the room and once more to every socket
GetWeeklyReturnsEmitsTwice(c) ==
  /\ cyc[c].pc = "getWeekly"
  /\ \/ \E n \in TableSizes :
          LET event == LeaderboardUpdateEvent(cyc[c].topGlobal,
                          getWeekly(RankingTable(n), TopLimit, 0))
          IN PublicStep(c, "achievements", <<>>,
                        <<Ev("getWeekly", "", TRUE, <<>>),
                          Ev("leaderboard_updated", PublicRoom, TRUE, event),
                          Ev("leaderboard_updated", "", TRUE, event)>>)
     \/ PublicStep(c, "achievements", <<>>, <<Ev("getWeekly", "", FALSE, <<>>)>>)

\* await getWeekly(10, 0), then the emit to the public room; both inside
\* the try of line 291
GetWeeklyReturns(c) ==
  /\ cyc[c].pc = "getWeekly"
  /\ \/ \E n \in TableSizes, emitted \in BOOLEAN :
          PublicStep(c, "achievements", <<>>,
                     <<Ev("getWeekly", "", TRUE, <<>>),
                       Ev("leaderboard_updated", PublicRoom, emitted,
                          LeaderboardUpdateEvent(cyc[c].topGlobal,
                             getWeekly(RankingTable(n), TopLimit, 0)))>>)
     \/ PublicStep(c, "achievements", <<>>, <<Ev("getWeekly", "", FALSE, <<>>)>>)

\* Step 6: broadcastAchievements up to the await of its promise
BroadcastAchievements(c) ==
  /\ cyc[c].pc = "achievements"
  /\ \E failing \in SUBSET {p \in AchievementPairs(cyc[c].rankChanges) :
                              \E i \in 1 .. Len(cyc[c].rankChanges) :
                                 /\ cyc[c].rankChanges[i].userId = p[1]
                                 /\ p[2] \in Range(detectAchievements(cyc[c].rankChanges[i]))} :
       Goto(c, "swap", broadcastAchievements(io, cyc[c].rankChanges, failing))

\* mutant: lastBroadcastTime is stamped with the time of completion
SwapSnapshotStampsCompletion(c) ==
  /\ cyc[c].pc = "swap"
  /\ previousSnapshots' = cyc[c].currentSnapshot
  /\ lastBroadcastTime' = clock
  /\ isBroadcasting' = Finally(isBroadcasting)
  /\ cyc' = [cyc EXCEPT ![c] = IdleFrame]
  /\ lastCall' = Outcome(c, "ok")
  /\ UNCHANGED <<ncalls, failed>>
  /\ UNCHANGED <<io, broadcastTimer, clock, timers>>

\* mutant: the stored Map is updated in place, entry by entry
SwapSnapshotInPlace(c) ==
  /\ cyc[c].pc = "swap"
  /\ previousSnapshots' = BuildSnapshot(previousSnapshots, cyc[c].currentSnapshot)
  /\ lastBroadcastTime' = cyc[c].now
  /\ isBroadcasting' = Finally(isBroadcasting)
  /\ cyc' = [cyc EXCEPT ![c] = IdleFrame]
  /\ lastCall' = Outcome(c, "ok")
  /\ UNCHANGED <<ncalls, failed>>
  /\ UNCHANGED <<io, broadcastTimer, clock, timers>>

\* Step 7 and the finally block
SwapSnapshot(c) ==
  /\ cyc[c].pc = "swap"
  /\ previousSnapshots' = cyc[c].currentSnapshot
  /\ lastBroadcastTime' = cyc[c].now
  /\ isBroadcasting' = Finally(isBroadcasting)
  /\ cyc' = [cyc EXCEPT ![c] = IdleFrame]
  /\ lastCall' = Outcome(c, "ok")
  /\ UNCHANGED <<ncalls, failed>>
  /\ UNCHANGED <<io, broadcastTimer, clock, timers>>

\* mutant: isRunning reports the single-flight flag
getStatusRunningIsBroadcasting ==
  [isRunning |-> isBroadcasting,
   isBroadcasting |-> isBroadcasting,
   lastBroadcastTime |-> lastBroadcastTime,
   snapshotSize |-> Len(previousSnapshots)]

\* the object getStatus returns (lines 435-440); Map.size is the number of entries
getStatus ==
  [isRunning |-> (broadcastTimer # 0),
   isBroadcasting |-> isBroadcasting,
   lastBroadcastTime |-> lastBroadcastTime,
   snapshotSize |-> Len(previousSnapshots)]

\* a call of getStatus: four reads, no assignment
GetStatus ==
  /\ getStatus \in [isRunning : BOOLEAN, isBroadcasting : BOOLEAN,
                     lastBroadcastTime : Nat, snapshotSize : Nat]
  /\ UNCHANGED vars

\* CronService: initialize starts the broadcaster (its two cron.schedule jobs
\* do not touch the broadcaster), shutdown stops it.
CronService_initialize == start

CronService_shutdown == stop

Next ==
  \/ initialize
  \/ start
  \/ stop
  \/ CronService_initialize
  \/ CronService_shutdown
  \/ Invoke
  \/ GetStatus
  \/ Tick
  \/ \E h \in Handles : TimerFire(h)
  \/ \E c \in Cycles : UpdateAllRanksReturns(c)
  \/ \E c \in Cycles : FindManyReturns(c)
  \/ \E c \in Cycles : DetectAndBroadcastPrivate(c)
  \/ \E c \in Cycles : PublicUpdateStarts(c)
  \/ \E c \in Cycles : GetGlobalReturns(c)
  \/ \E c \in Cycles : GetWeeklyReturns(c)
  \/ \E c \in Cycles : BroadcastAchievements(c)
  \/ \E c \in Cycles : SwapSnapshot(c)

Spec == Init /\ [][Next]_vars

\* Every call to the RankingSource eventually returns or throws, and a resolved
\* promise's continuation is run by the event loop.
CycleStep ==
  \E c \in Cycles :
     \/ UpdateAllRanksReturns(c) \/ FindManyReturns(c) \/ DetectAndBroadcastPrivate(c)
     \/ PublicUpdateStarts(c) \/ GetGlobalReturns(c) \/ GetWeeklyReturns(c)
     \/ BroadcastAchievements(c) \/ SwapSnapshot(c)

SpecFair == Spec /\ WF_vars(CycleStep)

(***************************************************************************)
(* SpecDiff: detectRankChanges and detectAchievements over wider inputs.   *)
(* Every behaviour starts where the second cycle of a running service is   *)
(* about to diff: the first cycle stored the snapshot `previous`, the      *)
(* interval fired one period later, updateAllRanks returned and findMany   *)
(* returned `rows`.  The steps are those of the cycle from the diff on.    *)
(* Two families of inputs:                                                 *)
(*  - three users in any table order, global ranks 1 .. MaxRank, for the   *)
(*    order of the diff (transport unbound: the fan-outs are skipped);     *)
(*  - one user with ranks on both sides of the achievement thresholds, for *)
(*    the achievement rules (transport bound).                             *)
(***************************************************************************)
DiffUsers == <<"u1", "u2", "u3">>
DiffOrders ==
  {o \in [1 .. Len(DiffUsers) -> Range(DiffUsers)] : Range(o) = Range(DiffUsers)}
TieRanks == [Range(DiffUsers) -> 0 .. MaxRank]      \* 0: the user has no row

\* the rows of the users that have one, in the order o
TieRows(o, f) ==
  LET present == SelectSeq(o, LAMBDA u : f[u] > 0)
  IN [i \in 1 .. Len(present) |->
        [userId |-> present[i], globalRank |-> f[present[i]], weeklyRank |-> 1]]

BandGlobalRanks == {5, 8, 10, 11, 12, 60, 100, 101, 140, 150, 200}
BandWeeklyRanks == {1, 2}
BandRows ==
  {<<>>} \cup {<<[userId |-> "u1", globalRank |-> g, weeklyRank |-> w]>> :
                 g \in BandGlobalRanks, w \in BandWeeklyRanks}

DiffInputs ==
  {[io |-> FALSE, previous |-> getCurrentSnapshot(TieRows(DiffUsers, f)),
    rows |-> TieRows(o, g)] : f \in TieRanks, g \in TieRanks, o \in DiffOrders}
  \cup {[io |-> TRUE, previous |-> getCurrentSnapshot(p), rows |-> r] :
          p \in BandRows, r \in BandRows}

DiffFrame(input, now) ==
  [pc |-> "detect", now |-> now,
   currentSnapshot |-> getCurrentSnapshot(input.rows), rankChanges |-> <<>>,
   topGlobal |-> <<>>,
   log |-> <<Ev("updateAllRanks", "", TRUE, <<>>), Ev("findMany", "", TRUE, input.rows)>>,
   call |-> 2, bound |-> input.io, baseline |-> input.previous, retry |-> FALSE]

InitDiff ==
  \E input \in DiffInputs :
     /\ io = input.io
     /\ broadcastTimer = 1
     /\ lastBroadcastTime = StartTime
     /\ previousSnapshots = input.previous
     /\ isBroadcasting = TRUE
     /\ clock = StartTime + BROADCAST_INTERVAL_MS
     /\ timers = [h \in Handles |->
                    IF h = 1 THEN StartTime + 2 * BROADCAST_INTERVAL_MS ELSE 0]
     /\ cyc = [c \in Cycles |->
                 IF c = 1 THEN DiffFrame(input, StartTime + BROADCAST_INTERVAL_MS)
                          ELSE IdleFrame]
     /\ ncalls = 2
     /\ lastCall = [t |-> StartTime + BROADCAST_INTERVAL_MS, src |-> "timer",
                    res |-> "running"]
     /\ failed = NotFailed

NextDiff ==
  \/ \E c \in Cycles : DetectAndBroadcastPrivate(c)
  \/ \E c \in Cycles : PublicUpdateStarts(c)
  \/ \E c \in Cycles : GetGlobalReturns(c)
  \/ \E c \in Cycles : GetWeeklyReturns(c)
  \/ \E c \in Cycles : BroadcastAchievements(c)
  \/ \E c \in Cycles : SwapSnapshot(c)

SpecDiff == InitDiff /\ [][NextDiff]_vars

(***************************************************************************)
(* Properties.                                                             *)
(***************************************************************************)
Entered == ncalls' = ncalls + 1
Skipped(call) == call.res \in {"too_soon", "in_progress"}
Executed(call) == call.res \in {"running", "ok", "failed"}
Returns(c) == cyc[c].pc # "idle" /\ cyc'[c].pc = "idle"
Entries(log, evs) == SelectSeq(log, LAMBDA e : e.ev \in evs)
Emits == {"rank_changed", "leaderboard_updated", "achievement_earned"}

\* C1: single-flight.  At most one cycle is in flight in every state, and an
\* invocation of broadcastRankChanges made while isBroadcasting is set is
\* skipped: it starts no frame (so it calls no RankingSource operation, emits
\* nothing and nothing is left to run later) and assigns no field.
C1_SingleFlight ==
  [][/\ Cardinality({c \in Cycles : cyc'[c].pc # "idle"}) <= 1
     /\ (Entered /\ isBroadcasting) =>
          /\ Skipped(lastCall')
          /\ UNCHANGED <<io, lastBroadcastTime, previousSnapshots, isBroadcasting, cyc>>]_vars

\* C1 witness: an invocation was skipped by the single-flight gate while a
\* cycle is in flight.
C1_Witness == lastCall.res = "in_progress" /\ InFlight # {} /\ isBroadcasting

\* C2 as stated: of two consecutive invocations less than the minimum gap
\* apart, exactly one executes a cycle.
C2_ExactlyOneOfTwo ==
  [][(Entered /\ ncalls >= 1 /\ lastCall'.t - lastCall.t < 240000) =>
       (Executed(lastCall) # Executed(lastCall'))]_vars

\* C2 amended: an invocation made less than the minimum gap after the start
\* of a cycle that is still in flight or that completed successfully is
\* skipped and changes nothing; so at most one of two invocations within the
\* gap executes a cycle that succeeds.
C2_SkippedAfterLiveOrSuccessful ==
  [][(/\ Entered
      /\ \/ lastCall.res \in {"running", "ok"} /\ clock - lastCall.t < 240000
         \/ \E c \in InFlight : clock - cyc[c].now < 240000) =>
       /\ Skipped(lastCall')
       /\ UNCHANGED <<io, lastBroadcastTime, previousSnapshots, isBroadcasting, cyc>>]_vars

\* C2 witness: a cycle completed successfully and a later invocation, less
\* than the gap after its start, was skipped by the minimum-gap gate.
C2_Witness ==
  /\ lastCall.res = "too_soon"
  /\ InFlight = {}
  /\ lastBroadcastTime > 0
  /\ lastCall.t - lastBroadcastTime < 240000
  /\ lastCall.t > lastBroadcastTime

\* C3: the single-flight flag never stays set.  It is clear whenever no cycle
\* is in flight, and whenever it is set it is eventually cleared, both when the
\* cycle succeeds and when a RankingSource call throws.
C3_FlagCleared ==
  /\ [](InFlight = {} => ~isBroadcasting)
  /\ (isBroadcasting ~> ~isBroadcasting)

\* C3 witness: the most recent cycle failed and the flag is clear.
C3_Witness == failed.is /\ lastCall.res = "failed" /\ ~isBroadcasting

\* the step in which a RankingSource call awaited by frame c throws
Throws(c) ==
  \/ cyc[c].pc = "updateAllRanks" /\ cyc'[c].pc \notin {"updateAllRanks", "findMany"}
  \/ cyc[c].pc = "findMany" /\ cyc'[c].pc \notin {"findMany", "detect"}
  \/ cyc[c].pc = "getGlobal" /\ cyc'[c].pc \notin {"getGlobal", "getWeekly"}
  \/ /\ cyc[c].pc = "getWeekly" /\ cyc'[c].pc # "getWeekly"
     /\ \A i \in 1 .. Len(cyc'[c].log) :
          ~(cyc'[c].log[i].ev = "getWeekly" /\ cyc'[c].log[i].ok)

\* C4 as stated: whichever RankingSource call throws (updateAllRanks,
\* findMany, getGlobal, getWeekly), the cycle aborts there and leaves the
\* stored snapshot and lastBroadcastTime as they were.
C4_AnySourceFailureAborts ==
  [][\A c \in Cycles :
       Throws(c) => /\ Returns(c)
                    /\ UNCHANGED <<previousSnapshots, lastBroadcastTime>>]_vars

\* C4 amended: a throw of updateAllRanks or findMany aborts the cycle, which
\* returns normally with the stored snapshot and lastBroadcastTime unchanged
\* and the flag cleared.  A throw of getGlobal or getWeekly is caught inside
\* the public update: no leaderboard_updated is emitted, the cycle is not
\* aborted and goes on to the achievement fan-out.
C4_SourceFailure ==
  [][\A c \in Cycles :
       /\ (cyc[c].pc \in {"updateAllRanks", "findMany"} /\ Throws(c)) =>
            /\ Returns(c)
            /\ UNCHANGED <<previousSnapshots, lastBroadcastTime>>
            /\ ~isBroadcasting'
            /\ (cyc[c].call = ncalls => lastCall'.res = "failed")
       /\ (cyc[c].pc \in {"getGlobal", "getWeekly"} /\ Throws(c)) =>
            /\ cyc'[c].pc = "achievements"
            /\ Entries(cyc'[c].log, {"leaderboard_updated"}) = <<>>
            /\ UNCHANGED <<previousSnapshots, lastBroadcastTime, isBroadcasting>>]_vars

\* C4 witness: a cycle was aborted after an earlier one had succeeded, and the
\* snapshot and the time of that earlier cycle are still stored.
C4_Witness ==
  /\ failed.is /\ lastCall.res = "failed" /\ InFlight = {}
  /\ previousSnapshots # <<>>
  /\ lastBroadcastTime > 0 /\ lastBroadcastTime < lastCall.t

\* C5: natural retry.  The invocation that follows a failed cycle is skipped
\* by neither gate: it starts a cycle, and that cycle finds and diffs against
\* the stored snapshot the failed cycle had found.
C5_NaturalRetry ==
  [][/\ (Entered /\ failed.is) =>
          /\ lastCall'.res = "running"
          /\ \E c \in Cycles : /\ cyc[c].pc = "idle"
                                /\ cyc'[c].pc = "updateAllRanks"
                                /\ cyc'[c].retry
                                /\ cyc'[c].baseline = failed.baseline
     /\ \A c \in Cycles : \A i \in 1 .. Len(cyc'[c].log) :
          cyc'[c].log[i].ev = "detectRankChanges" =>
             cyc'[c].log[i].data = cyc'[c].baseline]_vars

\* C5 witness: a timer fire that followed a failed cycle started a cycle, and
\* that cycle has done its diff.
C5_Witness ==
  \E c \in Cycles : /\ cyc[c].retry /\ cyc[c].call = ncalls /\ lastCall.src = "timer"
                    /\ cyc[c].pc = "public"
                    /\ Entries(cyc[c].log, {"detectRankChanges"}) # <<>>

AfterUnbound(pc) ==
  CASE pc = "detect" -> "public"
    [] pc = "public" -> "achievements"
    [] pc = "achievements" -> "swap"
    [] pc = "swap" -> "idle"
    [] OTHER -> pc

\* C6: as long as initialize was not called, no frame has emitted anything on
\* any channel, each fan-out step is skipped without ending the cycle, and the
\* cycle completes: the stored snapshot becomes the one built from the rows
\* fetched and lastBroadcastTime the start time of the cycle.
C6_TransportUnbound ==
  [][~io' =>
       \A c \in Cycles :
          /\ Entries(cyc'[c].log, Emits) = <<>>
          /\ (cyc[c].pc \in {"detect", "public", "achievements", "swap"}
                /\ cyc'[c].pc # cyc[c].pc) => cyc'[c].pc = AfterUnbound(cyc[c].pc)
          /\ (cyc[c].pc = "swap" /\ cyc'[c].pc = "idle") =>
                /\ previousSnapshots' =
                      getCurrentSnapshot(Entries(cyc[c].log, {"findMany"})[1].data)
                /\ lastBroadcastTime' = cyc[c].now
                /\ ~isBroadcasting'
                /\ (cyc[c].call = ncalls => lastCall'.res = "ok")]_vars

\* C6 witness: the transport is unbound and a cycle that found rank changes
\* has passed all three fan-out steps, with nothing emitted, and is about to
\* swap the snapshot.
C6_Witness ==
  /\ ~io
  /\ \E c \in Cycles : /\ cyc[c].pc = "swap"
                        /\ cyc[c].rankChanges # <<>>
                        /\ Entries(cyc[c].log, Emits) = <<>>

PastPrivate == {"public", "getGlobal", "getWeekly", "achievements", "swap"}

\* C7: per-recipient isolation of the rank_changed fan-out.  With the transport
\* bound, every change of the batch has its rank_changed emit on the user's own
\* channel, in batch order, whichever of the emits threw; and the step ends in
\* the public update, never in the end of the cycle.
C7_PrivateIsolation ==
  [][\A c \in Cycles :
       /\ (cyc'[c].pc \in PastPrivate /\ cyc'[c].bound) =>
            LET sends == Entries(cyc'[c].log, {"rank_changed"})
                batch == cyc'[c].rankChanges
            IN /\ Len(sends) = Len(batch)
               /\ \A i \in 1 .. Len(batch) :
                    /\ sends[i].to = "user:" \o batch[i].userId
                    /\ sends[i].data.rankChange = batch[i].rankChange
       /\ (cyc[c].pc = "detect" /\ cyc'[c].pc # "detect") =>
            /\ cyc'[c].pc = "public"
            /\ UNCHANGED <<isBroadcasting, previousSnapshots, lastBroadcastTime>>]_vars

\* C7 witness: the emit to the first user of a batch of two threw, the second
\* user got the message, and the cycle went on to the public update, the
\* achievement fan-out and is about to swap.
C7_Witness ==
  \E c \in Cycles :
     /\ cyc[c].pc = "swap"
     /\ Len(cyc[c].rankChanges) = 2
     /\ LET sends == Entries(cyc[c].log, {"rank_changed"})
        IN Len(sends) = 2 /\ ~sends[1].ok /\ sends[2].ok
     /\ Entries(cyc[c].log, {"leaderboard_updated"}) # <<>>

Delivered(log) ==
  SelectSeq(log, LAMBDA e : e.ev = "leaderboard_updated" /\ e.ok
                            /\ e.to = "leaderboard:global")

\* C8 as stated: with the transport bound, a cycle that reaches the snapshot
\* swap has emitted exactly one leaderboard_updated to leaderboard:global.
C8_ExactlyOnePublic ==
  \A c \in Cycles :
     (cyc[c].pc = "swap" /\ cyc[c].bound) => Len(Delivered(cyc[c].log)) = 1

\* C8 amended: a cycle emits leaderboard_updated at most once and only to
\* leaderboard:global; with the transport bound, a cycle past the public update
\* has emitted exactly one unless getGlobal, getWeekly or the emit threw, and
\* none if one of them did.
C8_AtMostOnePublic ==
  \A c \in Cycles :
     LET pub == Entries(cyc[c].log, {"leaderboard_updated"})
         threw == \E i \in 1 .. Len(cyc[c].log) :
                    /\ cyc[c].log[i].ev \in {"getGlobal", "getWeekly", "leaderboard_updated"}
                    /\ ~cyc[c].log[i].ok
     IN /\ Len(pub) <= 1
        /\ \A i \in 1 .. Len(pub) : pub[i].to = "leaderboard:global"
        /\ (cyc[c].pc \in {"achievements", "swap"} /\ cyc[c].bound) =>
             Len(Delivered(cyc[c].log)) = (IF threw THEN 0 ELSE 1)

\* C8 witness: a cycle with the transport bound is about to swap and has
\* emitted its one public update.
C8_Witness ==
  \E c \in Cycles : /\ cyc[c].pc = "swap" /\ cyc[c].bound
                    /\ Len(Delivered(cyc[c].log)) = 1

Phase(ev) ==
  CASE ev = "updateAllRanks" -> 1
    [] ev = "findMany" -> 2
    [] ev = "detectRankChanges" -> 3
    [] ev = "rank_changed" -> 4
    [] ev \in {"getGlobal", "getWeekly", "leaderboard_updated"} -> 5
    [] ev = "achievement_earned" -> 6
    [] OTHER -> 7

\* C9: the steps of a cycle happen in sequence: recompute, fetch, diff, all
\* rank_changed emits, the public update, all achievement_earned emits, and
\* only then the swap; the stored snapshot and lastBroadcastTime are assigned
\* by no other step than the last one of a frame.
C9_StepOrder ==
  [][/\ \A c \in Cycles :
          LET log == cyc'[c].log
          IN /\ \A i \in 1 .. Len(log) - 1 : Phase(log[i].ev) <= Phase(log[i + 1].ev)
             /\ Len(log) >= 1 => log[1].ev = "updateAllRanks"
             /\ Len(log) >= 2 => log[2].ev = "findMany"
             /\ Len(log) >= 3 => log[3].ev = "detectRankChanges"
     /\ (previousSnapshots' # previousSnapshots \/ lastBroadcastTime' # lastBroadcastTime) =>
          \E c \in Cycles : cyc[c].pc = "swap" /\ Returns(c) /\ Len(cyc[c].log) >= 3]_vars

\* C9 witness: a cycle about to swap has emitted rank_changed, then the public
\* update, then achievement_earned.
C9_Witness ==
  \E c \in Cycles :
     /\ cyc[c].pc = "swap"
     /\ \E i, j, k \in 1 .. Len(cyc[c].log) :
          /\ i < j /\ j < k
          /\ cyc[c].log[i].ev = "rank_changed"
          /\ cyc[c].log[j].ev = "leaderboard_updated"
          /\ cyc[c].log[k].ev = "achievement_earned"

\* C10: stop() leaves no interval alive, so no timer fire invokes
\* broadcastRankChanges while broadcastTimer is undefined; it touches nothing
\* of a cycle in flight, which still takes its remaining steps, swaps the
\* snapshot and clears the flag.
C10_StopKeepsCycle ==
  /\ [][/\ broadcastTimer' = 0 => \A h \in Handles : timers'[h] = 0
        /\ (Entered /\ lastCall'.src = "timer") => broadcastTimer # 0
        /\ (broadcastTimer # 0 /\ broadcastTimer' = 0) =>
             UNCHANGED <<io, cyc, isBroadcasting, previousSnapshots, lastBroadcastTime>>
        /\ \A c \in Cycles :
             (broadcastTimer = 0 /\ cyc[c].pc = "swap" /\ Returns(c)) =>
                /\ previousSnapshots' = cyc[c].currentSnapshot
                /\ lastBroadcastTime' = cyc[c].now
                /\ ~isBroadcasting']_vars
  /\ ((broadcastTimer = 0 /\ InFlight # {}) ~> (InFlight = {} /\ ~isBroadcasting))

\* C10 witness: the cycle that start() began is still in flight, at its last
\* step, after stop() cancelled the timer.
C10_Witness ==
  /\ broadcastTimer = 0
  /\ \A h \in Handles : timers[h] = 0
  /\ \E c \in Cycles : /\ cyc[c].pc = "swap" /\ cyc[c].call = ncalls
                        /\ lastCall.src = "start"

\* C11: start() is idempotent.  While broadcastTimer is set, a call of start()
\* changes nothing: no invocation of broadcastRankChanges comes from start(),
\* the handle is not replaced, no second interval is alive, and the next fire
\* time of the interval only moves by one interval when the interval fires.
C11_StartIdempotent ==
  [][broadcastTimer # 0 =>
       /\ start => UNCHANGED vars
       /\ ~(Entered /\ lastCall'.src = "start")
       /\ broadcastTimer' \in {broadcastTimer, 0}
       /\ \A h \in Handles : timers'[h] # 0 => h = broadcastTimer
       /\ timers'[broadcastTimer] \in {timers[broadcastTimer], 0,
                                       timers[broadcastTimer] + 300000}
       /\ timers'[broadcastTimer] = timers[broadcastTimer] + 300000 =>
             (Entered /\ lastCall'.src = "timer")]_vars

\* C11 witness: the scheduler is running, its interval is part-way through its
\* period and the cycle of start() is still in flight: start() is called here
\* and returns at line 81.
C11_Witness ==
  /\ broadcastTimer # 0
  /\ lastCall.src = "start"
  /\ InFlight # {}
  /\ clock > lastCall.t
  /\ timers[broadcastTimer] = lastCall.t + 300000
  /\ clock < timers[broadcastTimer]

\* C12 as stated: start() called while not running executes a cycle in that
\* call and arms the interval of 300 000 ms.
C12_StartRunsCycle ==
  [][(broadcastTimer = 0 /\ broadcastTimer' # 0) =>
       /\ Entered /\ lastCall'.src = "start"
       /\ lastCall'.res = "running"
       /\ timers'[broadcastTimer'] = clock + 300000]_vars

\* C12 amended: start() called while not running invokes broadcastRankChanges
\* once, in that call, and then arms one interval whose first fire is 300 000
\* ms later and whose fires are 300 000 ms apart.  The invocation is gated like
\* any other: it executes a cycle (updateAllRanks is called in that step) iff
\* the last successful cycle started at least 240 000 ms ago and no cycle is
\* in flight, which is the case for the first start() of an instance.
C12_StartInvokesThenArms ==
  [][/\ (broadcastTimer = 0 /\ broadcastTimer' # 0) =>
          /\ Entered /\ lastCall'.src = "start" /\ lastCall'.t = clock
          /\ (lastCall'.res = "running") =
                (clock - lastBroadcastTime >= 240000 /\ ~isBroadcasting)
          /\ (lastBroadcastTime = 0 /\ ncalls = 0) => lastCall'.res = "running"
          /\ lastCall'.res = "running" =>
                \E c \in Cycles : /\ cyc[c].pc = "idle"
                                    /\ cyc'[c].pc = "updateAllRanks"
                                    /\ cyc'[c].now = clock
          /\ lastCall'.res # "running" => UNCHANGED <<cyc, isBroadcasting>>
          /\ timers'[broadcastTimer'] = clock + 300000
          /\ \A h \in Handles : h # broadcastTimer' => timers'[h] = timers[h]
     /\ (Entered /\ lastCall'.src = "timer") =>
          \E h \in Handles : /\ timers[h] # 0 /\ clock >= timers[h]
                              /\ timers'[h] = timers[h] + 300000]_vars

\* C12 witness: the first start() of the instance has started a cycle, which
\* is awaiting updateAllRanks, and the interval is armed for 300 000 ms later.
C12_Witness ==
  /\ lastCall.src = "start" /\ lastCall.res = "running" /\ ncalls = 1
  /\ broadcastTimer # 0
  /\ timers[broadcastTimer] = lastCall.t + 300000
  /\ \E c \in Cycles : cyc[c].pc = "updateAllRanks" /\ cyc[c].now = lastCall.t

\* C13: a user who is only in the current snapshot gets no private message in
\* that cycle.  Every rank_changed and achievement_earned emit of a cycle goes
\* to a user who has an entry in the stored snapshot the cycle diffed against;
\* so a cycle that diffs against the empty snapshot, and any cycle running
\* before a first one has succeeded, emits no private message.
C13_NewUserNoPrivate ==
  \A c \in Cycles :
     LET diffs == Entries(cyc[c].log, {"detectRankChanges"})
         private == Entries(cyc[c].log, {"rank_changed", "achievement_earned"})
     IN /\ private # <<>> => Len(diffs) = 1
        /\ \A i \in 1 .. Len(private) :
              \E u \in Keys(diffs[1].data) \cap Keys(cyc[c].currentSnapshot) :
                 private[i].to = "user:" \o u
        /\ (lastBroadcastTime = 0 \/ cyc[c].baseline = <<>>) => private = <<>>

\* C13 witness: a cycle about to swap found u2 only in the current snapshot
\* and u1 in both with a better rank; it has emitted rank_changed and
\* achievement_earned to u1 and nothing to u2.
C13_Witness ==
  \E c \in Cycles :
     /\ cyc[c].pc = "swap"
     /\ Keys(cyc[c].baseline) = {"u1"}
     /\ Keys(cyc[c].currentSnapshot) = {"u1", "u2"}
     /\ Entries(cyc[c].log, {"rank_changed"}) # <<>>
     /\ Entries(cyc[c].log, {"achievement_earned"}) # <<>>
     /\ \A i \in 1 .. Len(cyc[c].log) : cyc[c].log[i].to # "user:u2"

\* the frames whose diff is done, and the stored snapshot it was done against
Diffed == {c \in Cycles : cyc[c].pc \in PastPrivate}
DiffBaseline(c) == Entries(cyc[c].log, {"detectRankChanges"})[1].data
EventsOf(changes, u) == {i \in 1 .. Len(changes) : changes[i].userId = u}

\* C14: the diff has exactly one event for each user who is in both the
\* stored and the current snapshot with a different globalRank or weeklyRank,
\* and no event for anyone else; the event carries the ranks of both entries
\* and rankChange = previous.globalRank - current.globalRank.  So the diff of
\* a snapshot with itself is empty and a user who left has no event.
C14_DiffEvents ==
  \A c \in Diffed :
     LET previous == DiffBaseline(c)
         current == cyc[c].currentSnapshot
         changes == cyc[c].rankChanges
     IN /\ \A u \in Keys(previous) \cup Keys(current) \cup Range(DiffUsers) :
              Cardinality(EventsOf(changes, u)) =
                 IF /\ u \in Keys(previous) /\ u \in Keys(current)
                    /\ \/ MapGet(previous, u).globalRank # MapGet(current, u).globalRank
                       \/ MapGet(previous, u).weeklyRank # MapGet(current, u).weeklyRank
                   THEN 1 ELSE 0
        /\ \A i \in 1 .. Len(changes) :
              LET p == MapGet(previous, changes[i].userId)
                  q == MapGet(current, changes[i].userId)
              IN /\ changes[i].rankChange = p.globalRank - q.globalRank
                 /\ changes[i].previousGlobalRank = p.globalRank
                 /\ changes[i].currentGlobalRank = q.globalRank
                 /\ changes[i].previousWeeklyRank = p.weeklyRank
                 /\ changes[i].currentWeeklyRank = q.weeklyRank
        /\ Range(previous) = Range(current) => changes = <<>>

\* C14 witness: of three users in the stored snapshot, u1 has left, u2 kept
\* its rank and u3 moved down: the diff is the one event of u3.
C14_Witness ==
  \E c \in Diffed :
     /\ Keys(DiffBaseline(c)) = {"u1", "u2", "u3"}
     /\ Keys(cyc[c].currentSnapshot) = {"u2", "u3"}
     /\ Len(cyc[c].rankChanges) = 1
     /\ cyc[c].rankChanges[1].userId = "u3"
     /\ cyc[c].rankChanges[1].rankChange < 0

Pos(m, u) == CHOOSE i \in 1 .. Len(m) : m[i].userId = u

\* C15: the diff is ordered by descending |rankChange|, and events of equal
\* |rankChange| are in the order in which the current snapshot iterates their
\* users.  With C14 this fixes the sequence: the order is total on the events,
\* so the same two snapshots give the same sequence.
C15_DiffOrder ==
  \A c \in Diffed :
     LET changes == cyc[c].rankChanges
         current == cyc[c].currentSnapshot
     IN \A i, j \in 1 .. Len(changes) :
           i < j =>
             /\ Abs(changes[i].rankChange) >= Abs(changes[j].rankChange)
             /\ Abs(changes[i].rankChange) = Abs(changes[j].rankChange) =>
                   Pos(current, changes[i].userId) < Pos(current, changes[j].userId)

\* C15 witness: three events; the largest move comes first although its user
\* is iterated last, and the two moves of equal size, one up and one down,
\* follow in the order of the current snapshot (u3 before u1).
C15_Witness ==
  \E c \in Diffed :
     LET changes == cyc[c].rankChanges
         current == cyc[c].currentSnapshot
     IN /\ Len(changes) = 3
        /\ changes[1].userId = "u2" /\ Pos(current, "u2") = 3
        /\ Abs(changes[1].rankChange) > Abs(changes[2].rankChange)
        /\ changes[2].userId = "u3" /\ changes[3].userId = "u1"
        /\ changes[2].rankChange = 0 - changes[3].rankChange
        /\ changes[2].rankChange < 0

AchievementKinds == {"top_10_global", "top_100_global", "big_climb", "weekly_leader"}

\* the rule of each kind, as the claim states it
RuleHolds(kind, change) ==
  CASE kind = "top_10_global" ->
         change.currentGlobalRank <= 10 /\ change.previousGlobalRank > 10
    [] kind = "top_100_global" ->
         change.currentGlobalRank <= 100 /\ change.previousGlobalRank > 100
    [] kind = "big_climb" -> change.rankChange >= 50
    [] kind = "weekly_leader" ->
         change.currentWeeklyRank = 1 /\ change.previousWeeklyRank # 1

\* the kinds of the achievement_earned emits of a log, in order
KindsSent(log) ==
  LET sends == Entries(log, {"achievement_earned"})
  IN [i \in 1 .. Len(sends) |-> sends[i].data.achievementType]

\* C16: for every event of a diff, detectAchievements returns each kind whose
\* rule holds exactly once and no other kind, whatever the other rules say;
\* and a cycle whose achievement emits all went through has sent the user
\* exactly those kinds, once each.
C16_AchievementRules ==
  \A c \in Diffed :
     \A i \in 1 .. Len(cyc[c].rankChanges) :
        LET change == cyc[c].rankChanges[i]
            achievements == detectAchievements(change)
            sends == Entries(cyc[c].log, {"achievement_earned"})
        IN /\ Range(achievements) = {k \in AchievementKinds : RuleHolds(k, change)}
           /\ Len(achievements) = Cardinality(Range(achievements))
           /\ (/\ cyc[c].pc = "swap" /\ cyc[c].bound /\ Len(cyc[c].rankChanges) = 1
               /\ \A j \in 1 .. Len(sends) : sends[j].ok) =>
                 /\ Range(KindsSent(cyc[c].log)) =
                       {k \in AchievementKinds : RuleHolds(k, change)}
                 /\ Len(sends) = Cardinality(Range(KindsSent(cyc[c].log)))

\* C16 witness: the event 200 -> 140 (rankChange 60) earned big_climb and
\* nothing else: 140 is not within the top 100.
C16_Witness ==
  \E c \in Cycles :
     /\ cyc[c].pc = "swap" /\ cyc[c].bound
     /\ Len(cyc[c].rankChanges) = 1
     /\ cyc[c].rankChanges[1].previousGlobalRank = 200
     /\ cyc[c].rankChanges[1].currentGlobalRank = 140
     /\ cyc[c].rankChanges[1].previousWeeklyRank = cyc[c].rankChanges[1].currentWeeklyRank
     /\ KindsSent(cyc[c].log) = <<"big_climb">>

\* C17: crossing, not level.  An achievement_earned of kind top_10_global
\* (top_100_global, weekly_leader) is only sent to a user whose entry in the
\* stored snapshot the cycle diffed against is outside the band and whose
\* entry in the current snapshot is inside it; a user inside the band in both
\* gets none, also when the other rank of the user changed.
C17_CrossingNotLevel ==
  \A c \in Cycles :
     LET sends == Entries(cyc[c].log, {"achievement_earned"})
     IN \A j \in 1 .. Len(sends) :
           \E u \in Keys(DiffBaseline(c)) \cap Keys(cyc[c].currentSnapshot) :
              LET p == MapGet(DiffBaseline(c), u)
                  q == MapGet(cyc[c].currentSnapshot, u)
                  kind == sends[j].data.achievementType
              IN /\ sends[j].to = "user:" \o u
                 /\ kind = "top_10_global" => (p.globalRank > 10 /\ q.globalRank <= 10)
                 /\ kind = "top_100_global" => (p.globalRank > 100 /\ q.globalRank <= 100)
                 /\ kind = "weekly_leader" => (p.weeklyRank # 1 /\ q.weeklyRank = 1)

\* C17 witness: u1 is at globalRank 5 in the stored and in the current
\* snapshot and became the weekly leader: the cycle sent weekly_leader and no
\* top_10_global.
C17_Witness ==
  \E c \in Cycles :
     /\ cyc[c].pc = "swap" /\ cyc[c].bound
     /\ Keys(cyc[c].baseline) = {"u1"} /\ Keys(cyc[c].currentSnapshot) = {"u1"}
     /\ MapGet(cyc[c].baseline, "u1").globalRank = 5
     /\ MapGet(cyc[c].currentSnapshot, "u1").globalRank = 5
     /\ KindsSent(cyc[c].log) = <<"weekly_leader">>

\* C18: every leaderboard_updated message has at most 10 entries in topGlobal
\* and at most 10 in topWeekly, and carries nothing but type and the two
\* lists of (userId, username, rank, pnl): no rankChange, no previous rank
\* and no improved flag of any user.
C18_PublicPayload ==
  \A c \in Cycles :
     LET pub == Entries(cyc[c].log, {"leaderboard_updated"})
     IN \A i \in 1 .. Len(pub) :
           /\ Len(pub[i].data.topGlobal) <= 10
           /\ Len(pub[i].data.topWeekly) <= 10
           /\ DOMAIN pub[i].data = {"type", "topGlobal", "topWeekly"}
           /\ \A j \in 1 .. Len(pub[i].data.topGlobal) :
                 DOMAIN pub[i].data.topGlobal[j] = {"userId", "username", "rank", "pnl"}
           /\ \A j \in 1 .. Len(pub[i].data.topWeekly) :
                 DOMAIN pub[i].data.topWeekly[j] = {"userId", "username", "rank", "pnl"}

\* C18 witness: the rankings have more than 10 rows and the update that was
\* emitted to the public room carries the first 10 of each.
C18_Witness ==
  \E c \in Cycles :
     LET pub == Delivered(cyc[c].log)
     IN /\ MaxTable > 10
        /\ Len(pub) = 1
        /\ Len(pub[1].data.topGlobal) = 10 /\ pub[1].data.topGlobal[10].rank = 10
        /\ Len(pub[1].data.topWeekly) = 10 /\ pub[1].data.topWeekly[10].rank = 10
        /\ Entries(cyc[c].log, {"rank_changed"}) # <<>>

\* the user whose private channel is `room`
Recipient(room, users) == CHOOSE u \in users : room = "user:" \o u

\* C19: no private data crosses users.  Every rank_changed and every
\* achievement_earned emit of a cycle goes to the channel user:<userId> of one
\* user who is in the stored and in the current snapshot, never to the public
\* room; a rank_changed payload is made of that user's two entries and of
\* nothing else, an achievement kind is one that user's two entries earn; a
\* user's channel gets at most one rank_changed and each kind at most once.
C19_NoCrossUserData ==
  \A c \in Cycles :
     LET private == Entries(cyc[c].log, {"rank_changed", "achievement_earned"})
     IN \A i \in 1 .. Len(private) :
           LET users == Keys(DiffBaseline(c)) \cap Keys(cyc[c].currentSnapshot)
               u == Recipient(private[i].to, users)
               p == MapGet(DiffBaseline(c), u)
               q == MapGet(cyc[c].currentSnapshot, u)
           IN /\ private[i].to # "leaderboard:global"
              /\ \E v \in users : private[i].to = "user:" \o v
              /\ private[i].ev = "rank_changed" =>
                    private[i].data =
                       [type |-> "rank_changed",
                        previousGlobalRank |-> p.globalRank,
                        currentGlobalRank |-> q.globalRank,
                        previousWeeklyRank |-> p.weeklyRank,
                        currentWeeklyRank |-> q.weeklyRank,
                        rankChange |-> p.globalRank - q.globalRank,
                        improved |-> (p.globalRank > q.globalRank)]
              /\ private[i].ev = "achievement_earned" =>
                    /\ DOMAIN private[i].data = {"type", "achievementType"}
                    /\ RuleHolds(private[i].data.achievementType,
                                 [previousGlobalRank |-> p.globalRank,
                                  currentGlobalRank |-> q.globalRank,
                                  previousWeeklyRank |-> p.weeklyRank,
                                  currentWeeklyRank |-> q.weeklyRank,
                                  rankChange |-> p.globalRank - q.globalRank])
              /\ \A j \in 1 .. Len(private) :
                    (/\ j # i /\ private[j].to = private[i].to
                     /\ private[j].ev = private[i].ev) =>
                       /\ private[i].ev = "achievement_earned"
                       /\ private[j].data # private[i].data

\* C19 witness: in one cycle u1 moved up and u2 moved down; each got its own
\* rank_changed, with different content, on its own channel, and u1 its
\* achievements.
C19_Witness ==
  \E c \in Cycles :
     LET sends == Entries(cyc[c].log, {"rank_changed"})
         earned == Entries(cyc[c].log, {"achievement_earned"})
     IN /\ cyc[c].pc = "swap"
        /\ Len(sends) = 2
        /\ sends[1].to = "user:u1" /\ sends[1].data.rankChange > 0
        /\ sends[2].to = "user:u2" /\ sends[2].data.rankChange < 0
        /\ earned # <<>>
        /\ \A j \in 1 .. Len(earned) : earned[j].to = "user:u1"

\* snapshot is the complete snapshot of rows: one entry per row, with the
\* ranks of the row, and no other entry
CompleteSnapshotOf(snapshot, rows) ==
  /\ Len(snapshot) = Len(rows)
  /\ Keys(snapshot) = {rows[i].userId : i \in 1 .. Len(rows)}
  /\ \A i \in 1 .. Len(rows) :
        /\ MapGet(snapshot, rows[i].userId).globalRank = rows[i].globalRank
        /\ MapGet(snapshot, rows[i].userId).weeklyRank = rows[i].weeklyRank

\* C20: the stored snapshot starts empty and is assigned only by the last
\* step of a cycle that succeeds, once, and then it becomes the complete
\* snapshot of the rows that cycle fetched; a cycle that fails leaves it as it
\* is.  So it always is the empty snapshot or the snapshot of the most recent
\* successful cycle, and that is what every cycle in flight finds stored and
\* diffs against.
C20_WholeSwap ==
  [][/\ previousSnapshots' # previousSnapshots =>
          \E c \in Cycles : cyc[c].pc = "swap" /\ Returns(c)
     /\ \A c \in Cycles :
          /\ (cyc[c].pc = "swap" /\ Returns(c)) =>
                /\ CompleteSnapshotOf(previousSnapshots',
                                      Entries(cyc[c].log, {"findMany"})[1].data)
                /\ (cyc[c].call = ncalls => lastCall'.res = "ok")
          /\ (cyc[c].pc # "swap" /\ Returns(c)) =>
                /\ UNCHANGED previousSnapshots
                /\ (cyc[c].call = ncalls => lastCall'.res = "failed")
          /\ cyc'[c].pc # "idle" =>
                /\ cyc'[c].baseline = previousSnapshots'
                /\ \A i \in 1 .. Len(cyc'[c].log) :
                      cyc'[c].log[i].ev = "detectRankChanges" =>
                         cyc'[c].log[i].data = previousSnapshots']_vars

\* C20 witness: the second cycle has succeeded and the stored snapshot is the
\* single row it fetched.
C20_Witness ==
  /\ ncalls = 2 /\ lastCall.res = "ok" /\ InFlight = {}
  /\ lastBroadcastTime = lastCall.t /\ lastCall.t > StartTime
  /\ Keys(previousSnapshots) = {"u2"}

\* C21: getStatus is a pure read.  A call assigns nothing, and what it returns
\* in any state, also with a cycle suspended between two steps, is: isRunning
\* iff an interval is armed, isBroadcasting the single-flight flag (set iff a
\* cycle is in flight), lastBroadcastTime the stored time and snapshotSize
\* the number of entries of the stored snapshot.
C21_StatusIsPureRead ==
  /\ [][GetStatus =>
          UNCHANGED <<io, broadcastTimer, lastBroadcastTime, previousSnapshots,
                      isBroadcasting, timers, cyc>>]_vars
  /\ [](/\ getStatus.isRunning = (broadcastTimer # 0)
        /\ getStatus.isRunning = (\E h \in Handles : timers[h] # 0)
        /\ getStatus.isBroadcasting = isBroadcasting
        /\ getStatus.isBroadcasting = (InFlight # {})
        /\ getStatus.lastBroadcastTime = lastBroadcastTime
        /\ getStatus.snapshotSize = Cardinality(Keys(previousSnapshots)))

\* C21 witness: stop() was called while the second cycle is suspended in
\* findMany; getStatus returns not running, broadcasting, the start time of
\* the first cycle and the two entries that cycle stored.
C21_Witness ==
  /\ \E c \in Cycles : cyc[c].pc = "findMany" /\ cyc[c].call = 2
  /\ getStatus.isRunning = FALSE
  /\ getStatus.isBroadcasting = TRUE
  /\ getStatus.lastBroadcastTime = StartTime
  /\ getStatus.snapshotSize = 2

\* C22: lastBroadcastTime is 0 until a cycle succeeds and then the start time
\* of the most recent cycle that succeeded.  It is assigned by the last step
\* of a successful cycle only, with the time at which that cycle was entered,
\* which is at least 240 000 ms after the value it replaces: it never
\* decreases and two successful cycles start at least the minimum gap apart,
\* whoever invoked them.
C22_MinimumGap ==
  [][/\ lastBroadcastTime' # lastBroadcastTime =>
          \E c \in Cycles : cyc[c].pc = "swap" /\ Returns(c)
     /\ \A c \in Cycles :
          (cyc[c].pc = "swap" /\ Returns(c)) =>
             /\ lastBroadcastTime' = cyc[c].now
             /\ cyc[c].now <= clock
             /\ lastBroadcastTime' - lastBroadcastTime >= 240000
             /\ (cyc[c].call = ncalls => lastBroadcastTime' = lastCall.t)
     /\ lastBroadcastTime' >= lastBroadcastTime
     /\ (ncalls' = 0 => lastBroadcastTime' = 0)
     /\ (lastCall'.res = "ok" => lastBroadcastTime' = lastCall'.t)]_vars

\* C22 witness: two cycles have succeeded, the second one entered by a direct
\* invocation exactly the minimum gap after the first; time went by while it
\* was running, and lastBroadcastTime is the time it was entered.
C22_Witness ==
  /\ ncalls = 2 /\ lastCall.res = "ok" /\ lastCall.src = "direct"
  /\ previousSnapshots # <<>>
  /\ lastBroadcastTime = StartTime + 240000
  /\ lastBroadcastTime = lastCall.t
  /\ clock > lastCall.t

\* C23: a cycle that has emitted anything (attempts that threw included)
\* cannot fail any more: it returns through the swap, which replaces the
\* stored snapshot by the one it fetched and raises lastBroadcastTime to its
\* start time; a cycle that fails has emitted nothing and leaves both as they
\* are.  The stored snapshot a cycle emitted against is therefore replaced
\* before another cycle can diff, and no transition out of it is sent twice.
C23_EmitThenAdvance ==
  [][\A c \in Cycles :
       /\ (Returns(c) /\ Entries(cyc[c].log, Emits) # <<>>) =>
            /\ cyc[c].pc = "swap"
            /\ previousSnapshots' = cyc[c].currentSnapshot
            /\ lastBroadcastTime' = cyc[c].now
            /\ lastBroadcastTime' > lastBroadcastTime
            /\ \A d \in Cycles : cyc'[d].pc = "idle"
       /\ (Returns(c) /\ cyc[c].pc # "swap") =>
            /\ Entries(cyc[c].log, Emits) = <<>>
            /\ UNCHANGED <<previousSnapshots, lastBroadcastTime>>
       /\ Entries(cyc'[c].log, Emits) # <<>> =>
            /\ cyc'[c].pc \in PastPrivate
            /\ DiffBaseline(c)' = previousSnapshots'
            /\ lastBroadcastTime' < cyc'[c].now]_vars

\* C23 witness: a cycle has sent rank_changed, its public update failed in
\* getGlobal, and it is about to swap the snapshot it fetched for the stored
\* one, which differs.
C23_Witness ==
  \E c \in Cycles :
     /\ cyc[c].pc = "swap"
     /\ Entries(cyc[c].log, {"rank_changed"}) # <<>>
     /\ \E i \in 1 .. Len(cyc[c].log) :
           cyc[c].log[i].ev = "getGlobal" /\ ~cyc[c].log[i].ok
     /\ cyc[c].currentSnapshot # previousSnapshots

\* the achievement_earned emits of a log that went to userId, kind by kind
SentTo(log, userId) ==
  LET sends == SelectSeq(log, LAMBDA e : e.ev = "achievement_earned"
                                         /\ e.to = "user:" \o userId)
  IN [i \in 1 .. Len(sends) |-> sends[i].data.achievementType]

\* C24: achievement sends are isolated per send.  When the achievement
\* fan-out of a cycle has run with the transport bound, every achievement of
\* every change of the batch has been sent (or its send has thrown), whichever
\* of the other sends threw.
C24_PerSendIsolation ==
  [][\A c \in Cycles :
       (cyc[c].pc = "achievements" /\ cyc'[c].pc = "swap" /\ io) =>
          \A i \in 1 .. Len(cyc[c].rankChanges) :
             LET change == cyc[c].rankChanges[i]
             IN \A kind \in {k \in AchievementKinds : RuleHolds(k, change)} :
                   kind \in Range(SentTo(cyc'[c].log, change.userId))]_vars

\* C26: for every interleaving of initialize() with the steps of a cycle in
\* flight, an achievement_earned send to a user is preceded, in the same
\* cycle, by an attempted rank_changed send to that user.
C26_AchievementAfterRankChange ==
  \A c \in Cycles :
     \A i \in 1 .. Len(cyc[c].log) :
        cyc[c].log[i].ev = "achievement_earned" =>
           \E j \in 1 .. i - 1 :
              /\ cyc[c].log[j].ev = "rank_changed"
              /\ cyc[c].log[j].to = cyc[c].log[i].to

Armed == {h \in Handles : timers[h] # 0}

\* C25: one timer.  In every reachable state at most one interval is armed,
\* it is the one this.broadcastTimer holds, and getStatus reports isRunning
\* exactly when it is armed; at most one cycle is in flight, and a start()
\* issued while a cycle is in flight (after a stop(), since start() is a no-op
\* otherwise) arms the timer but its immediate invocation is skipped and
\* leaves the cycle in flight as it is.
C25_OneTimer ==
  /\ [](/\ Cardinality(Armed) <= 1
        /\ Armed = {broadcastTimer} \ {0}
        /\ getStatus.isRunning <=> (Armed # {})
        /\ Cardinality(InFlight) <= 1)
  /\ [][(Entered /\ lastCall'.src = "start" /\ InFlight # {}) =>
            /\ Skipped(lastCall')
            /\ UNCHANGED cyc
            /\ Cardinality(Armed') = 1
            /\ getStatus'.isRunning]_vars

\* C25 witness: after a stop(), start() was called while a cycle was in
\* flight; the cycle is still the only one and one timer is armed.
C25_Witness ==
  /\ lastCall.src = "start"
  /\ lastCall.res = "in_progress"
  /\ ncalls = 2
  /\ \E c \in Cycles : InFlight = {c} /\ cyc[c].call = 1
  /\ Cardinality(Armed) = 1
  /\ getStatus.isRunning
====
